---------------------------- MODULE Spec2Model ----------------------------
(***************************************************************************)
(* A model of the FlappyBirdAI evolutionary trainer: the controller        *)
(* (genetic.py: Genetic_AI), the fitness evaluator, the selector, the      *)
(* recombination operators and the evolution loop (genetic_controller.py), *)
(* and the weight import (export_weights.py).                              *)
(*                                                                         *)
(* Numbers.  Python floats are modelled in fixed point: a weight is an     *)
(* integer number of hundredths (Q), a feature an integer number of        *)
(* thousandths (FQ).  A fitness score is an exact rational <<num, den>>    *)
(* in lowest terms, because ranking, ties and the mean of trial scores     *)
(* decide the claims.  np.tanh is a piecewise-linear interpolation of the  *)
(* function through its values at multiples of 0.5.                        *)
(*                                                                         *)
(* References.  Python objects are compared by identity ("parent1 is       *)
(* parent2"); a reference to a controller of the current generation is its *)
(* index in `population`.                                                  *)
(***************************************************************************)
EXTENDS Integers, Sequences, FiniteSets, TLC

VARIABLES
    cfg,            \* the entry point and its arguments
    pc,             \* position in the code of the entry point
    epoch,          \* run_X_epochs: the loop variable `epoch`
    population,     \* run_X_epochs: the list `population` (controllers)
    n,              \* run_X_epochs: the evaluation loop's variable `n`
    i,              \* run_X_epochs: the elite loop's variable `i`
    k,              \* run_X_epochs: iterations done of the offspring loop
    fitness,        \* compute_fitness: the list `fitness` of trial scores
    calls,          \* the getMove calls of the running episode, in order
    total_fitness,  \* run_X_epochs: `total_fitness`
    gene,           \* run_X_epochs: `gene`, the sum of the genotypes
    sorted_pop,     \* run_X_epochs: `sorted_pop`, as references
    next_gen,       \* run_X_epochs: the list `next_gen`
    elite_fit_score,\* run_X_epochs: `elite_fit_score`
    elite_genes,    \* run_X_epochs: `elite_genes`
    parents,        \* run_X_epochs: `parents`, as references
    parent1,        \* run_X_epochs: `parent1`, a reference
    parent2,        \* run_X_epochs: `parent2`, a reference
    log,            \* the CSV file data/<logging_file>.csv
    data,           \* run_X_epochs: `data`, the value returned
    file,           \* export_weights: the JSON document read by the import
    inputs,         \* the raw states an observation run feeds its controllers
    outs            \* per controller, the results of its getMove calls

vars == <<cfg, pc, epoch, population, n, i, k, fitness, calls, total_fitness, gene,
          sorted_pop, next_gen, elite_fit_score, elite_genes, parents,
          parent1, parent2, log, data, file, inputs, outs>>

\* Python's None and a present value, for a field that may be unset
None == <<>>
Some(x) == <<x>>

(***************************************************************************)
(* Bounds of the model.                                                    *)
(***************************************************************************)
\* getMove calls the environment makes in one episode, at most
MaxSteps == 2
\* trials of a stand-alone compute_fitness call, at most
MaxTrials == 6
\* raw states an observation run feeds each controller, at most
MaxInputs == 3

(***************************************************************************)
(* Program constants.                                                      *)
(***************************************************************************)
num_features == 6
hidden_size == 8
tournament_size == 3
ClipBound == 3

\* fixed-point quanta: weights in hundredths, features in thousandths
Q == 10 * 10
FQ == 10 * 10 * 10

(***************************************************************************)
(* Arithmetic helpers.                                                     *)
(***************************************************************************)
Abs(x) == IF x < 0 THEN -x ELSE x

Min(a, b) == IF a < b THEN a ELSE b

RECURSIVE Gcd(_, _)
Gcd(a, b) == IF b = 0 THEN a ELSE Gcd(b, a % b)

\* the rational a/b (b > 0) in lowest terms
Rat(a, b) ==
    LET g == Gcd(Abs(a), b)
    IN  IF a = 0 THEN <<0, 1>> ELSE <<a \div g, b \div g>>

RatAdd(x, y) == Rat(x[1] * y[2] + y[1] * x[2], x[2] * y[2])

RatLess(x, y) == x[1] * y[2] < y[1] * x[2]

RatDivInt(x, kx) == Rat(x[1], x[2] * kx)

RECURSIVE SumSeq(_)
SumSeq(s) == IF s = <<>> THEN 0 ELSE Head(s) + SumSeq(Tail(s))

RECURSIVE SelectIdx(_, _, _)
\* the elements s[ix] of s whose index satisfies keep, in order
SelectIdx(s, keep, ix) ==
    IF ix > Len(s) THEN <<>>
    ELSE (IF keep[ix] THEN <<s[ix]>> ELSE <<>>) \o SelectIdx(s, keep, ix + 1)

Range(s) == {s[ix] : ix \in 1..Len(s)}

\* element-wise sum of two vectors of one length
VecAdd(u, v) == [ix \in 1..Len(u) |-> u[ix] + v[ix]]

Zeros(len) == [ix \in 1..len |-> 0]

(***************************************************************************)
(* genetic.py: the controller.                                             *)
(***************************************************************************)
\* total_weights = (num_features * hidden_size) + hidden_size + hidden_size + 1
TotalWeights(nf, hs) == (nf * hs) + hs + hs + 1

\* limit = np.sqrt(6.0 / (num_features + hidden_size)), in hundredths
XavierLimit ==
    CHOOSE r \in 0..Q :
        /\ r * r * (num_features + hidden_size) <= 6 * Q * Q
        /\ (r + 1) * (r + 1) * (num_features + hidden_size) > 6 * Q * Q

\* one outcome of np.random.uniform(-limit, limit, size): every weight within
\* the limit, the weights differing from index to index
XavierVec(seed, size) ==
    [ix \in 1..size |-> ((ix * seed) % (2 * XavierLimit + 1)) - XavierLimit]

XavierSeeds == {7, 11}

\* the outcomes of _xavier_init the model draws from
XavierInit(size) == {XavierVec(s, size) : s \in XavierSeeds}

\* np.clip(x, -3, 3) on one weight
\* a faulty variant: the weight left as it is
ClipNone(x) == x
Clip(x) ==
    IF x < -(ClipBound * Q) THEN -(ClipBound * Q)
    ELSE IF x > ClipBound * Q THEN ClipBound * Q ELSE x

\* outcomes of np.random.normal(0, noise_sd, len) the model draws from: one
\* standard deviation (0.1) down or up on every weight
NoiseVals == {-(Q \div 10), Q \div 10}

Mutations(len) == {[ix \in 1..len |-> d] : d \in NoiseVals}

\* Genetic_AI(genotype=..., mutate=...): genotype is None or Some(vector);
\* `rnd` is the random draw the constructor makes (the Xavier vector when
\* genotype is None, the mutation noise when mutate).  No branch compares
\* len(genotype) with total_weights.
\* a faulty variant: the mutation applied whatever `mutate` says
Genetic_AI_Mutated(genotype, mutate, rnd) ==
    [genotype    |-> IF genotype = None THEN rnd
                     ELSE [ix \in 1..Len(genotype[1]) |->
                              Clip(genotype[1][ix] + (IF mutate THEN rnd[ix]
                                                     ELSE Q \div 10))],
     fit_score   |-> <<0, 1>>,
     previous_y  |-> None]
Genetic_AI(genotype, mutate, rnd) ==
    [genotype    |-> IF genotype = None THEN rnd
                     ELSE IF ~mutate THEN genotype[1]
                     ELSE [ix \in 1..Len(genotype[1]) |->
                              Clip(genotype[1][ix] + rnd[ix])],
     fit_score   |-> <<0, 1>>,
     previous_y  |-> None]

\* the draws Genetic_AI(genotype, mutate) can make
Draws(genotype, mutate) ==
    IF genotype = None THEN XavierInit(TotalWeights(num_features, hidden_size))
    ELSE IF mutate THEN Mutations(Len(genotype[1]))
    ELSE {<<>>}

\* np.tanh at multiples of 0.5, in thousandths
TanhKnots == <<0, 462, 762, 905, 964, 987, 995, 998, 999, 1000>>

\* np.tanh(x): x in units of 1/(FQ*Q), the result in thousandths
Tanh(x) ==
    LET half == (FQ * Q) \div 2
        a == Abs(x)
        kx == a \div half
        r == a % half
        t == IF kx + 2 > Len(TanhKnots) THEN 1000
             ELSE TanhKnots[kx + 1]
                  + ((TanhKnots[kx + 2] - TanhKnots[kx + 1]) * r) \div half
    IN  IF x < 0 THEN -t ELSE t

\* _forward_pass: the sign of the output is what getMove reads.  A genotype
\* shorter than the slices need makes reshape / dot / indexing raise.
ForwardPass(genotype, feats) ==
    LET w1_end == num_features * hidden_size
        b1_end == w1_end + hidden_size
        w2_end == b1_end + hidden_size
        W1(ix, j) == genotype[(ix - 1) * hidden_size + j]
        b1(j) == genotype[w1_end + j]
        W2(j) == genotype[b1_end + j]
        b2 == genotype[w2_end + 1]
        z(j) == SumSeq([ix \in 1..num_features |-> feats[ix] * W1(ix, j)])
                + b1(j) * FQ
        hidden(j) == Tanh(z(j))
    IN  IF Len(genotype) < w2_end + 1 THEN [raised |-> TRUE, output |-> 0]
        ELSE [raised |-> FALSE,
              output |-> SumSeq([j \in 1..hidden_size |-> hidden(j) * W2(j)])
                         + b2 * 1000]

\* getMove lines 71-74: the velocity feature
Velocity(previous_y, y) ==
    IF previous_y # None THEN y - previous_y[1] ELSE 0

\* getMove lines 79-86: the six features, in thousandths
EnhancedState(state, velocity) ==
    << (state[1] * FQ) \div 256,
       (state[2] * FQ) \div 568,
       (state[3] * FQ) \div 512,
       (velocity * FQ) \div 10,
       Min((state[2] * FQ) \div 568, FQ),
       IF Abs(state[1]) < 50 THEN FQ ELSE 0 >>

\* getMove(state) on controller `agent`: the controller after the call, the
\* height it observed, the velocity it used, whether the forward pass raised
\* and the decision (output > 0) it returned
\* a faulty variant: line 76 left out, the observed height not kept
GetMoveStale(agent, state) ==
    LET velocity == Velocity(agent.previous_y, state[3])
        fp == ForwardPass(agent.genotype, EnhancedState(state, velocity))
    IN  [agent    |-> agent,
         y        |-> state[3],
         velocity |-> velocity,
         raised   |-> fp.raised,
         decision |-> fp.output > 0]
GetMove(agent, state) ==
    LET velocity == Velocity(agent.previous_y, state[3])
        fp == ForwardPass(agent.genotype, EnhancedState(state, velocity))
    IN  [agent    |-> [agent EXCEPT !.previous_y = Some(state[3])],
         y        |-> state[3],
         velocity |-> velocity,
         raised   |-> fp.raised,
         decision |-> fp.output > 0]

(***************************************************************************)
(* genetic_controller.py: compute_fitness lines 54-65.                     *)
(***************************************************************************)
\* np.abs(fitness_array - mean_fit) <= kx * std_fit for score x.  With S the
\* sum and m the count the comparison is, in exact arithmetic,
\*     m * (m*x - S)^2 <= kx^2 * SUM (m*x_j - S)^2.
\* numpy evaluates it in double precision: where the two sides are exactly
\* equal (scores [9, 10, 9, 9, 9]: the deviation 0.8 against twice 0.4) the
\* rounding of the mean and of the square root decides, so `tie` says whether
\* a score lying exactly on the threshold is kept.
\* a faulty variant: the comparison turned round, keeping the outliers
WithinStdBeyond(fit, x, kx, tie) ==
    LET m == Len(fit)
        S == SumSeq(fit)
        dev(v) == (m * v - S) * (m * v - S)
    IN  m * dev(x) > kx * kx * SumSeq([j \in 1..m |-> dev(fit[j])])
WithinStd(fit, x, kx, tie) ==
    LET m == Len(fit)
        S == SumSeq(fit)
        dev(v) == (m * v - S) * (m * v - S)
        lhs == m * dev(x)
        rhs == kx * kx * SumSeq([j \in 1..m |-> dev(fit[j])])
    IN  lhs < rhs \/ (lhs = rhs /\ tie)

\* std_fit > 0
StdPositive(fit) == \E ix \in 1..Len(fit) : fit[ix] # fit[1]

Mean(fit) == Rat(SumSeq(fit), Len(fit))

OutlierStd == 2

\* a faulty variant: the threshold at one standard deviation
AggregateFitnessStdOne(fit, tie) ==
    LET filtered == SelectIdx(fit, [ix \in 1..Len(fit) |->
                                       WithinStd(fit, fit[ix], 1, tie)], 1)
    IN  IF Len(fit) > 2 /\ StdPositive(fit) /\ Len(filtered) > 0
        THEN Mean(filtered)
        ELSE Mean(fit)
\* line 61: filtered_fitness
FilteredFitness(fit, tie) ==
    SelectIdx(fit, [ix \in 1..Len(fit) |->
                       WithinStd(fit, fit[ix], OutlierStd, tie)], 1)

AggregateFitness(fit, tie) ==
    LET filtered == FilteredFitness(fit, tie)
    IN  IF Len(fit) > 2 /\ StdPositive(fit) /\ Len(filtered) > 0
        THEN Mean(filtered)
        ELSE Mean(fit)


(***************************************************************************)
(* genetic_controller.py: the selector.                                    *)
(***************************************************************************)
Fit(pop, r) == pop[r].fit_score

\* a.__lt__(b): controllers compare by fit_score only
Lt(pop, a, b) == RatLess(Fit(pop, a), Fit(pop, b))

RECURSIVE InsertDesc(_, _, _)
\* r put into the descending list `sorted`, after every reference that is not
\* less than it: equal scores keep the order in which they arrive
InsertDesc(pop, sorted, r) ==
    IF sorted = <<>> THEN <<r>>
    ELSE IF Lt(pop, Head(sorted), r) THEN <<r>> \o sorted
    ELSE <<Head(sorted)>> \o InsertDesc(pop, Tail(sorted), r)

RECURSIVE SortedFrom(_, _, _)
SortedFrom(pop, sorted, r) ==
    IF r > Len(pop) THEN sorted
    ELSE SortedFrom(pop, InsertDesc(pop, sorted, r), r + 1)

\* sorted(population, reverse=True): descending by fit_score, stable
Sorted(pop) == SortedFrom(pop, <<>>, 1)

\* round(x) of Python 3 for x = num/den >= 0: halves go to the even integer
Round(num, den) ==
    LET q == num \div den
        r == num % den
    IN  IF 2 * r < den THEN q
        ELSE IF 2 * r > den THEN q + 1
        ELSE IF q % 2 = 0 THEN q ELSE q + 1

\* num_parents = round(pop_size * survival_rate)
NumParents(c) ==
    Round(c.pop_size * c.survival_rate[1], c.survival_rate[2])

\* sorted_pop[:num_parents]
Pool(sorted, num_parents) == SubSeq(sorted, 1, Min(num_parents, Len(sorted)))

\* random.sample(pool, kx): the kx-element lists of distinct members
Samples(pool, kx) ==
    {t \in [1..kx -> Range(pool)] : \A ix, j \in 1..kx : ix # j => t[ix] # t[j]}

\* max(tournament, key=lambda x: x.fit_score): the first of the best
MaxOf(pop, t) ==
    t[CHOOSE ix \in 1..Len(t) :
        /\ \A j \in 1..Len(t) : ~Lt(pop, t[ix], t[j])
        /\ \A j \in 1..(ix - 1) : Lt(pop, t[j], t[ix])]

\* the controllers tournament_selection(pool, tournament_size) can return;
\* an empty pool makes max() raise ValueError
Tournament(pop, pool) ==
    {MaxOf(pop, t) : t \in Samples(pool, Min(tournament_size, Len(pool)))}

(***************************************************************************)
(* genetic_controller.py: cross.                                           *)
(***************************************************************************)
\* outcomes of the per-gene coin random.random() < 0.5 the model draws from
CoinFlips(len) ==
    {[ix \in 1..len |-> ix % 2 = 0], [ix \in 1..len |-> ix % 3 # 0]}

\* outcomes of random.randint(1, len - 1) the model draws from
CrossoverPoints(len) == {1, len \div 2, len - 1}

\* the random draws one call of cross makes
CrossDraws(aggregate, len) ==
    IF aggregate = "uniform"
    THEN {[coins |-> c, point |-> 0, noise |-> m] :
             c \in CoinFlips(len), m \in Mutations(len)}
    ELSE IF aggregate = "blend"
    THEN {[coins |-> <<>>, point |-> 0, noise |-> m] : m \in Mutations(len)}
    ELSE {[coins |-> <<>>, point |-> p, noise |-> m] :
             p \in CrossoverPoints(len), m \in Mutations(len)}

\* w1 * g1 + w2 * g2 with w = fit / (fit1 + fit2), or 0.5 each when the total
\* is not positive; rounded to the nearest hundredth
BlendGene(f1, f2, g1, g2) ==
    LET a == f1[1] * f2[2]
        b == f2[1] * f1[2]
        wa == IF a + b > 0 THEN a ELSE 1
        wb == IF a + b > 0 THEN b ELSE 1
    IN  (2 * (wa * g1 + wb * g2) + (wa + wb)) \div (2 * (wa + wb))

NewGenotype(a1, a2, aggregate, d) ==
    LET len == Len(a1.genotype)
    IN  IF aggregate = "uniform"
        THEN [ix \in 1..len |-> IF d.coins[ix] THEN a1.genotype[ix]
                               ELSE a2.genotype[ix]]
        ELSE IF aggregate = "blend"
        THEN [ix \in 1..len |-> BlendGene(a1.fit_score, a2.fit_score,
                                         a1.genotype[ix], a2.genotype[ix])]
        ELSE SubSeq(a1.genotype, 1, d.point)
             \o SubSeq(a2.genotype, d.point + 1, len)

\* cross(a1, a2, aggregate) under the draws d
Cross(a1, a2, aggregate, d) ==
    Genetic_AI(Some(NewGenotype(a1, a2, aggregate, d)), TRUE, d.noise)


(***************************************************************************)
(* The environment (flappybird.mains) and the inputs of a run.             *)
(***************************************************************************)
\* raw states (gap distance, horizontal distance, bird height, bias) the
\* environment hands to getMove
Aligned == <<30, 180, 240, 1>>
Grounded == <<-60, 600, 0, 1>>
RawStates == {Aligned, Grounded}

\* run_X_epochs(num_epochs, num_trials, pop_size, aggregate, num_elite,
\* survival_rate), with the environment of the run: the scores its episodes
\* can return and the raw states it can show
RunConfig(e, t, p, a, el, sr, sc, st) ==
    [entry |-> "run_X_epochs", num_epochs |-> e, num_trials |-> t,
     pop_size |-> p, aggregate |-> a, num_elite |-> el, survival_rate |-> sr,
     scores |-> sc, states |-> st]

\* population 4, one elite, survival rate 0.5: a pool of two
Scenario == RunConfig(1, 1, 4, "blend", 1, <<1, 2>>, {10, 20, 30, 40},
                      {Aligned})

RunConfigs ==
    { Scenario,
      \* a pool of one, two epochs
      RunConfig(2, 1, 2, "uniform", 1, <<1, 2>>, {10, 20}, RawStates),
      \* a pool of three, the default single-point strategy ('lin')
      RunConfig(1, 1, 3, "lin", 2, <<1, 1>>, {10, 20}, RawStates),
      \* a pool of four, larger than a tournament
      RunConfig(1, 1, 4, "uniform", 3, <<1, 1>>, {0, 20}, {Aligned}),
      \* several trials, every controller an elite
      RunConfig(2, 2, 2, "blend", 2, <<1, 2>>, {10, 20}, RawStates),
      \* no epoch at all
      RunConfig(0, 1, 2, "blend", 1, <<1, 2>>, {10, 20}, RawStates),
      \* no elite
      RunConfig(1, 1, 2, "uniform", 0, <<1, 2>>, {10, 20}, RawStates),
      \* more elites than controllers
      RunConfig(1, 1, 1, "blend", 2, <<1, 1>>, {10, 20}, RawStates),
      \* a survival rate that rounds to an empty pool
      RunConfig(1, 1, 1, "blend", 0, <<35, 100>>, {10, 20}, RawStates),
      \* an empty population
      RunConfig(1, 1, 0, "blend", 0, <<1, 2>>, {10, 20}, RawStates) }

\* the draws of the pop_size constructor calls of line 77: the model draws from
\* two joint outcomes, each giving the controllers pairwise different weights
InitialDraws(pop_size) ==
    {[j \in 1..pop_size |->
         XavierVec(s + j, TotalWeights(num_features, hidden_size))] :
        s \in XavierSeeds}

headers == <<"avg_fit", "avg_gene", "top_fit", "top_gene", "elite_fit",
             "elite_gene">>

Row(avg_fit, avg_gene, top_fit, top_gene, elite_fit, elite_gene) ==
    [avg_fit |-> avg_fit, avg_gene |-> avg_gene, top_fit |-> top_fit,
     top_gene |-> top_gene, elite_fit |-> elite_fit,
     elite_gene |-> elite_gene]

\* [1, np.ones(4), 1, np.ones(4), 1, np.ones(4)]
Ones4 == [j \in 1..4 |-> Q]
PlaceholderRow == Row(<<1, 1>>, Ones4, <<1, 1>>, Ones4, <<1, 1>>, Ones4)

\* df.to_csv(path, index=False): the file is rewritten, header and rows
ToCsv(rows) == [header |-> headers, rows |-> rows]

\* df.to_csv(path, mode='a', index=False, header=False)
ToCsvAppend(f, rows) == [f EXCEPT !.rows = f.rows \o rows]

\* vector / count, in hundredths
VecDiv(v, c) == [j \in 1..Len(v) |-> v[j] \div c]

Idle ==
    /\ epoch = 0 /\ population = <<>> /\ n = 0 /\ i = 0 /\ k = 0
    /\ fitness = <<>> /\ calls = <<>> /\ total_fitness = <<0, 1>>
    /\ gene = <<>> /\ sorted_pop = <<>> /\ next_gen = <<>>
    /\ elite_fit_score = <<0, 1>> /\ elite_genes = <<>> /\ parents = <<>>
    /\ parent1 = 0 /\ parent2 = 0
    /\ log = [header |-> <<>>, rows |-> <<>>] /\ data = <<>>
    /\ file = <<>> /\ inputs = <<>> /\ outs = <<>>

Init ==
    /\ cfg \in RunConfigs
    /\ pc = "start"
    /\ Idle

(***************************************************************************)
(* compute_fitness: the trial loop, lines 46-52.                           *)
(***************************************************************************)
\* the controller under evaluation: population[n]
agent == population[n + 1]

\* line 49: agent.previous_y = None, before every trial
\* a faulty variant: the reset left out
ResetPreviousYKept(a) == a
ResetPreviousY(a) == [a EXCEPT !.previous_y = None]

TrialReset ==
    /\ pc = "eval"
    /\ n < cfg.pop_size
    /\ Len(fitness) < cfg.num_trials
    /\ population' = [population EXCEPT ![n + 1] = ResetPreviousY(agent)]
    /\ calls' = <<>>
    /\ pc' = "mains"
    /\ UNCHANGED <<cfg, epoch, n, i, k, fitness, total_fitness, gene,
                   sorted_pop, next_gen, elite_fit_score, elite_genes,
                   parents, parent1, parent2, log, data, file, inputs, outs>>

\* one simulation step of mains(agent1=agent): the environment calls
\* agent.getMove(state)
MainsStep ==
    /\ pc = "mains"
    /\ Len(calls) < MaxSteps
    /\ \E state \in cfg.states :
          LET r == GetMove(agent, state)
          IN  /\ population' = [population EXCEPT ![n + 1] = r.agent]
              /\ calls' = Append(calls, [y |-> r.y, velocity |-> r.velocity,
                                         decision |-> r.decision])
              /\ pc' = IF r.raised THEN "ValueError" ELSE pc
    /\ UNCHANGED <<cfg, epoch, n, i, k, fitness, total_fitness, gene,
                   sorted_pop, next_gen, elite_fit_score, elite_genes,
                   parents, parent1, parent2, log, data, file, inputs, outs>>

\* lines 50-51: mains returns the episode's score, which joins `fitness`
MainsReturn ==
    /\ pc = "mains"
    /\ Len(calls) >= 1
    /\ \E score \in cfg.scores : fitness' = Append(fitness, score)
    /\ pc' = "eval"
    /\ UNCHANGED <<cfg, epoch, population, n, i, k, calls, total_fitness,
                   gene, sorted_pop, next_gen, elite_fit_score, elite_genes,
                   parents, parent1, parent2, log, data, file, inputs, outs>>

(***************************************************************************)
(* run_X_epochs.                                                           *)
(***************************************************************************)
\* lines 70-77: the log file is created and the population built
RunStart ==
    /\ pc = "start"
    /\ cfg.entry = "run_X_epochs"
    /\ log' = ToCsv(<<PlaceholderRow>>)
    /\ data' = <<PlaceholderRow>>
    /\ \E draws \in InitialDraws(cfg.pop_size) :
          population' = [j \in 1..cfg.pop_size |->
                            Genetic_AI(None, FALSE, draws[j])]
    /\ pc' = "loop"
    /\ UNCHANGED <<cfg, epoch, n, i, k, fitness, calls, total_fitness, gene,
                   sorted_pop, next_gen, elite_fit_score, elite_genes,
                   parents, parent1, parent2, file, inputs, outs>>

\* lines 79-88 and 153: the head of the epoch loop, or the return
EpochBegin ==
    /\ pc = "loop"
    /\ IF epoch < cfg.num_epochs
       THEN IF Len(population) = 0
            THEN /\ pc' = "IndexError"
                 /\ UNCHANGED <<total_fitness, gene, n, fitness>>
            ELSE /\ total_fitness' = <<0, 1>>
                 /\ gene' = Zeros(Len(population[1].genotype))
                 /\ n' = 0
                 /\ fitness' = <<>>
                 /\ pc' = "eval"
       ELSE /\ pc' = "done"
            /\ UNCHANGED <<total_fitness, gene, n, fitness>>
    /\ UNCHANGED <<cfg, epoch, population, i, k, calls, sorted_pop, next_gen,
                   elite_fit_score, elite_genes, parents, parent1, parent2,
                   log, data, file, inputs, outs>>

\* lines 93-96 with compute_fitness lines 54-65: the controller's trials are
\* over, its score is aggregated and added to the epoch's sums
EvaluateAgent ==
    /\ pc = "eval"
    /\ n < cfg.pop_size
    /\ Len(fitness) = cfg.num_trials
    /\ \E tie \in BOOLEAN :
          LET score == AggregateFitness(fitness, tie)
          IN  /\ population' = [population EXCEPT ![n + 1].fit_score = score]
              /\ total_fitness' = RatAdd(total_fitness, score)
    /\ gene' = VecAdd(gene, agent.genotype)
    /\ n' = n + 1
    /\ fitness' = <<>>
    /\ UNCHANGED <<cfg, pc, epoch, i, k, calls, sorted_pop, next_gen,
                   elite_fit_score, elite_genes, parents, parent1, parent2,
                   log, data, file, inputs, outs>>

\* `for n in range(pop_size)` is exhausted
\* a faulty variant: the loop left one controller early
EvalDoneEarly == n >= cfg.pop_size - 1
EvalDone == n = cfg.pop_size

\* lines 98-114: the generation is ranked
Rank ==
    /\ pc = "eval"
    /\ EvalDone
    /\ next_gen' = <<>>
    /\ sorted_pop' = Sorted(population)
    /\ elite_fit_score' = <<0, 1>>
    /\ elite_genes' = Zeros(Len(population[1].genotype))
    /\ i' = 0
    /\ pc' = "elite"
    /\ UNCHANGED <<cfg, epoch, population, n, k, fitness, calls,
                   total_fitness, gene, parents, parent1, parent2, log, data,
                   file, inputs, outs>>

\* line 114: top_agent = sorted_pop[0]
top_agent == sorted_pop[1]

\* lines 116-119: one iteration of the elite loop
EliteCopy ==
    /\ pc = "elite"
    /\ i < cfg.num_elite
    /\ IF i + 1 > Len(sorted_pop)
       THEN /\ pc' = "IndexError"
            /\ UNCHANGED <<elite_fit_score, elite_genes, next_gen, i>>
       ELSE LET a == population[sorted_pop[i + 1]]
            IN  /\ elite_fit_score' = RatAdd(elite_fit_score, a.fit_score)
                /\ elite_genes' = VecAdd(elite_genes, a.genotype)
                /\ next_gen' = Append(next_gen,
                                  Genetic_AI(Some(a.genotype), FALSE, <<>>))
                /\ i' = i + 1
                /\ pc' = pc
    /\ UNCHANGED <<cfg, epoch, population, n, k, fitness, calls,
                   total_fitness, gene, sorted_pop, parents, parent1,
                   parent2, log, data, file, inputs, outs>>

\* lines 121-123: the survivor pool
SelectPool ==
    /\ pc = "elite"
    /\ i = cfg.num_elite
    /\ parents' = Pool(sorted_pop, NumParents(cfg))
    /\ k' = 0
    /\ pc' = "offspring"
    /\ UNCHANGED <<cfg, epoch, population, n, i, fitness, calls,
                   total_fitness, gene, sorted_pop, next_gen,
                   elite_fit_score, elite_genes, parent1, parent2, log, data,
                   file, inputs, outs>>

\* `for _ in range(pop_size - num_elite)`: offspring left to make
\* a faulty variant: the elites not counted
OffspringLeftAll == k < cfg.pop_size
OffspringLeft == k < cfg.pop_size - cfg.num_elite

\* lines 126-129: both parents are drawn
SelectParents ==
    /\ pc = "offspring"
    /\ OffspringLeft
    /\ IF parents = <<>>
       THEN /\ pc' = "ValueError"
            /\ UNCHANGED <<parent1, parent2>>
       ELSE /\ parent1' \in Tournament(population, parents)
            /\ parent2' \in Tournament(population, parents)
            /\ pc' = "while"
    /\ UNCHANGED <<cfg, epoch, population, n, i, k, fitness, calls,
                   total_fitness, gene, sorted_pop, next_gen,
                   elite_fit_score, elite_genes, parents, log, data, file,
                   inputs, outs>>

\* line 132: parent1 is parent2 and len(parents) > 1
\* a faulty variant: the parents never compared
SameParentsNever == FALSE
SameParents == parent1 = parent2 /\ Len(parents) > 1

\* line 133: the second parent is drawn again
Retry ==
    /\ pc = "while"
    /\ SameParents
    /\ parent2' \in Tournament(population, parents)
    /\ UNCHANGED <<cfg, pc, epoch, population, n, i, k, fitness, calls,
                   total_fitness, gene, sorted_pop, next_gen,
                   elite_fit_score, elite_genes, parents, parent1, log, data,
                   file, inputs, outs>>

\* line 135: the offspring joins next_gen
CrossOffspring ==
    /\ pc = "while"
    /\ ~SameParents
    /\ \E d \in CrossDraws(cfg.aggregate, Len(population[parent1].genotype)) :
          next_gen' = Append(next_gen, Cross(population[parent1],
                                             population[parent2],
                                             cfg.aggregate, d))
    /\ k' = k + 1
    /\ pc' = "offspring"
    /\ UNCHANGED <<cfg, epoch, population, n, i, fitness, calls,
                   total_fitness, gene, sorted_pop, elite_fit_score,
                   elite_genes, parents, parent1, parent2, log, data, file,
                   inputs, outs>>

\* lines 137-144: the epoch's record
GenerationRecord ==
    Row(RatDivInt(total_fitness, cfg.pop_size),
        VecDiv(gene, cfg.pop_size),
        population[top_agent].fit_score,
        population[top_agent].genotype,
        RatDivInt(elite_fit_score, cfg.num_elite),
        VecDiv(elite_genes, cfg.num_elite))

\* lines 137-151: the record is appended to the log and the population
\* replaced; elite_fit_score / num_elite raises when num_elite is 0
RecordGeneration ==
    /\ pc = "offspring"
    /\ ~OffspringLeft
    /\ IF cfg.num_elite = 0
       THEN /\ pc' = "ZeroDivisionError"
            /\ UNCHANGED <<log, data, population, epoch>>
       ELSE /\ data' = <<GenerationRecord>>
            /\ log' = ToCsvAppend(log, <<GenerationRecord>>)
            /\ population' = next_gen
            /\ epoch' = epoch + 1
            /\ pc' = "loop"
    /\ UNCHANGED <<cfg, n, i, k, fitness, calls, total_fitness, gene,
                   sorted_pop, next_gen, elite_fit_score, elite_genes,
                   parents, parent1, parent2, file, inputs, outs>>

Next ==
    \/ RunStart
    \/ EpochBegin
    \/ TrialReset
    \/ MainsStep
    \/ MainsReturn
    \/ EvaluateAgent
    \/ Rank
    \/ EliteCopy
    \/ SelectPool
    \/ SelectParents
    \/ Retry
    \/ CrossOffspring
    \/ RecordGeneration

Spec == Init /\ [][Next]_vars

(***************************************************************************)
(* Properties of run_X_epochs.                                             *)
(***************************************************************************)
\* the ranking by descending fitness with ties in population order, by
\* counting: q is ahead of r when it scores more, or the same and comes first
Ahead(pop, q, r) ==
    \/ RatLess(Fit(pop, r), Fit(pop, q))
    \/ (Fit(pop, q) = Fit(pop, r) /\ q < r)

RankOf(pop, r) == Cardinality({q \in 1..Len(pop) : Ahead(pop, q, r)}) + 1

\* the reference ranked j-th
Ranked(pop, j) == CHOOSE r \in 1..Len(pop) : RankOf(pop, r) = j

RECURSIVE GeneSum(_, _)
\* the sum of the genotypes of the first m controllers
GeneSum(pop, m) ==
    IF m = 0 THEN Zeros(Len(pop[1].genotype))
    ELSE VecAdd(GeneSum(pop, m - 1), pop[m].genotype)

Recombining == pc \in {"elite", "offspring", "while"}

\* the claims speak of configurations with num_elite <= pop_size and a
\* survivor pool of at least one member
Configured ==
    /\ cfg.num_elite <= cfg.pop_size
    /\ NumParents(cfg) >= 1

\* C1: a run with num_epochs >= 0, num_elite <= pop_size and a survivor pool
\* of at least one member stops after the configured number of epochs; in
\* particular the loop that redraws the second parent until it differs from
\* the first always ends: whenever the loop is entered, some draw of the
\* second parent differs from the first
C1_RetryLoopEnds ==
    (Configured /\ pc = "while" /\ parent1 = parent2 /\ Len(parents) > 1) =>
       \E p \in Tournament(population, parents) : p # parent1

\* C3: the first num_elite members of the next generation carry exactly the
\* weight vectors of the top num_elite controllers of the ranked current
\* generation (ties in population order), with fitness 0 and previous height
\* unset; and the generation that starts the next epoch still carries them:
\* its first member has the logged top_gene, its elites the logged elite mean
C3_Elitism ==
    cfg.num_elite <= cfg.pop_size =>
      /\ Recombining =>
           \A j \in 1..Len(next_gen) :
              j <= cfg.num_elite =>
                /\ next_gen[j].genotype
                     = population[Ranked(population, j)].genotype
                /\ next_gen[j].fit_score = <<0, 1>>
                /\ next_gen[j].previous_y = None
      /\ (epoch >= 1 /\ cfg.num_elite >= 1) =>
           /\ population[1].genotype = log.rows[Len(log.rows)].top_gene
           /\ VecDiv(GeneSum(population, cfg.num_elite), cfg.num_elite)
                = log.rows[Len(log.rows)].elite_gene
      /\ (epoch >= 1 /\ pc = "loop") =>
           \A j \in 1..cfg.num_elite :
              /\ population[j].fit_score = <<0, 1>>
              /\ population[j].previous_y = None

\* two elites copied, the better of them not the first of the population
C3_Witness ==
    /\ pc = "offspring"
    /\ cfg.num_elite = 2
    /\ Len(next_gen) >= 2
    /\ sorted_pop[1] = 2
    /\ next_gen[1].genotype = population[2].genotype
    /\ next_gen[1].genotype # population[1].genotype

\* p can be the best of a sample of `size` distinct members of the pool: the
\* pool holds size - 1 other members that do not score more
CanWin(pop, pool, p, size) ==
    Cardinality({q \in Range(pool) \ {p} : ~Lt(pop, p, q)}) >= size - 1

C6_PerTrialVelocity ==
    /\ (pc = "mains" /\ calls = <<>>) => agent.previous_y = None
    /\ \A j \in 1..Len(calls) :
          calls[j].velocity
            = IF j = 1 THEN 0 ELSE calls[j].y - calls[j - 1].y

\* in a second epoch, a second trial whose calls saw height 0 and then 240
C6_Witness ==
    /\ pc = "mains"
    /\ epoch >= 1
    /\ Len(fitness) >= 1
    /\ Len(calls) = 2
    /\ calls[1].y = 0
    /\ calls[2].y = 240
    /\ calls[2].velocity = 240

\* C7: the population of every epoch has pop_size controllers; the next
\* generation is built as num_elite elites followed by pop_size - num_elite
\* offspring
C7_PopulationSize ==
    (cfg.num_elite <= cfg.pop_size /\ pc # "start") =>
      /\ Len(population) = cfg.pop_size
      /\ pc = "elite" => (Len(next_gen) = i /\ i <= cfg.num_elite)
      /\ pc \in {"offspring", "while"} =>
           /\ i = cfg.num_elite
           /\ Len(next_gen) = cfg.num_elite + k
           /\ k <= cfg.pop_size - cfg.num_elite

\* a second epoch starts with a generation of one elite and one offspring
C7_Witness ==
    /\ pc = "eval"
    /\ epoch = 1
    /\ cfg.num_elite = 1
    /\ cfg.pop_size = 2
    /\ Len(population) = 2
    /\ k = 1

\* C9: after a run of E epochs the log holds the header and exactly E rows,
\* each the record of one evaluated generation
C9_LogRows ==
    pc = "done" =>
      /\ log.header = headers
      /\ Len(log.rows) = cfg.num_epochs
      /\ \A j \in 1..Len(log.rows) :
            Len(log.rows[j].top_gene)
              = TotalWeights(num_features, hidden_size)

FitnessConfigs ==
    {[entry |-> "compute_fitness", num_epochs |-> 0, num_trials |-> t,
      pop_size |-> 1, aggregate |-> "blend", num_elite |-> 0,
      survival_rate |-> <<1, 1>>, scores |-> {9, 10, 11, 200},
      states |-> {Aligned}] : t \in 1..MaxTrials}

\* the controller arrives with whatever its history left in previous_y
FitnessInit ==
    /\ cfg \in FitnessConfigs
    /\ pc = "eval"
    /\ epoch = 0 /\ n = 0 /\ i = 0 /\ k = 0
    /\ \E y \in {None, Some(0), Some(240)} :
          population =
            <<[Genetic_AI(None, FALSE,
                          XavierVec(7, TotalWeights(num_features,
                                                    hidden_size)))
                 EXCEPT !.previous_y = y]>>
    /\ fitness = <<>> /\ calls = <<>> /\ total_fitness = <<0, 1>>
    /\ gene = <<>> /\ sorted_pop = <<>> /\ next_gen = <<>>
    /\ elite_fit_score = <<0, 1>> /\ elite_genes = <<>> /\ parents = <<>>
    /\ parent1 = 0 /\ parent2 = 0
    /\ log = [header |-> <<>>, rows |-> <<>>] /\ data = <<>>
    /\ file = <<>> /\ inputs = <<>> /\ outs = <<>>

\* lines 54-65: the trials are over and the aggregate is returned
FitnessReturn ==
    /\ pc = "eval"
    /\ Len(fitness) = cfg.num_trials
    /\ \E tie \in BOOLEAN : data' = <<AggregateFitness(fitness, tie)>>
    /\ pc' = "returned"
    /\ UNCHANGED <<cfg, epoch, population, n, i, k, fitness, calls,
                   total_fitness, gene, sorted_pop, next_gen,
                   elite_fit_score, elite_genes, parents, parent1, parent2,
                   log, file, inputs, outs>>

FitnessNext ==
    \/ TrialReset
    \/ MainsStep
    \/ MainsReturn
    \/ FitnessReturn

FitnessSpec == FitnessInit /\ [][FitnessNext]_vars

ExampleScores == <<10, 11, 9, 10, 200>>

\* C2 as stated: five trials scoring [10, 11, 9, 10, 200] return the mean of
\* [10, 11, 9, 10], 10.0, the score 200 being excluded
C2_OutlierExcluded ==
    (pc = "returned" /\ fitness = ExampleScores) => data = << <<10, 1>> >>

\* C2 as the code has it: 200 lies within 2 standard deviations of the mean
\* 48 (the deviation 152 against twice 76.003), no score is excluded and the
\* mean of all five scores, 48.0, is returned
C2_OutlierKept ==
    (pc = "returned" /\ fitness = ExampleScores) =>
       /\ data = << <<48, 1>> >>
       /\ data = <<Mean(fitness)>>

\* compute_fitness has returned from five trials with the example's scores
C2_Witness ==
    /\ pc = "returned"
    /\ cfg.num_trials = 5
    /\ fitness = ExampleScores
    /\ data # <<>>

\* C12: for more than 2 trials and scores with a non-zero standard deviation
\* at least one score lies within 2 standard deviations of the mean, however
\* the rounding settles a score lying exactly on the threshold: the trimmed
\* set is never empty, the value returned is its mean, and it lies between
\* the smallest and the largest trial score
C12_TrimmedNotEmpty ==
    (pc = "returned" /\ Len(fitness) > 2 /\ StdPositive(fitness)) =>
       /\ \A tie \in BOOLEAN : Len(FilteredFitness(fitness, tie)) > 0
       /\ \E tie \in BOOLEAN : data = <<Mean(FilteredFitness(fitness, tie))>>
       /\ \E lo, hi \in Range(fitness) :
             /\ \A j \in 1..Len(fitness) : lo <= fitness[j] /\ fitness[j] <= hi
             /\ ~RatLess(data[1], <<lo, 1>>)
             /\ ~RatLess(<<hi, 1>>, data[1])

\* compute_fitness has returned from more than 2 trials of which it discarded
\* at least one score, and the mean of the rest differs from the mean of all
C12_Witness ==
    /\ pc = "returned"
    /\ Len(fitness) > 2
    /\ StdPositive(fitness)
    /\ Len(FilteredFitness(fitness, TRUE)) < Len(fitness)
    /\ data = <<Mean(FilteredFitness(fitness, TRUE))>>
    /\ data # <<Mean(fitness)>>

(***************************************************************************)
(* export_weights.py: load_and_test_exported_weights.                      *)
(***************************************************************************)
\* the JSON documents the import is given: weights of the declared length, a
\* length that differs from the declared one, and a missing file (None)
ExportedFile(w, tw) ==
    Some([weights |-> w, fitness |-> <<150, 1>>,
          architecture |-> [num_features |-> num_features,
                            hidden_size |-> hidden_size,
                            total_weights |-> tw]])

WeightLengths ==
    {4, TotalWeights(num_features, hidden_size) - 1,
     TotalWeights(num_features, hidden_size),
     TotalWeights(num_features, hidden_size) + 1}

ExportedFiles ==
    {None} \cup
    {ExportedFile(XavierVec(s, len), tw) :
        s \in XavierSeeds, len \in WeightLengths,
        tw \in {TotalWeights(num_features, hidden_size)}}

\* the test loop of lines 156-161 is `for i in range(3)`
TestRuns == 3

ImportInit ==
    /\ cfg = [entry |-> "load_and_test_exported_weights", num_epochs |-> 0,
              num_trials |-> TestRuns, pop_size |-> 1, aggregate |-> "blend",
              num_elite |-> 0, survival_rate |-> <<1, 1>>,
              scores |-> {10, 20}, states |-> RawStates]
    /\ pc = "start"
    /\ epoch = 0 /\ population = <<>> /\ n = 0 /\ i = 0 /\ k = 0
    /\ fitness = <<>> /\ calls = <<>> /\ total_fitness = <<0, 1>>
    /\ gene = <<>> /\ sorted_pop = <<>> /\ next_gen = <<>>
    /\ elite_fit_score = <<0, 1>> /\ elite_genes = <<>> /\ parents = <<>>
    /\ parent1 = 0 /\ parent2 = 0
    /\ log = [header |-> <<>>, rows |-> <<>>] /\ data = <<>>
    /\ file \in ExportedFiles
    /\ inputs = <<>> /\ outs = <<>>

\* lines 141-150 and 168-171: the document is read and the controller built
\* from data['weights']; a missing file returns None.  Nothing compares
\* len(data['weights']) with data['architecture']['total_weights'].
LoadWeights ==
    /\ pc = "start"
    /\ IF file = None
       THEN /\ pc' = "returned"
            /\ UNCHANGED population
       ELSE /\ population' = <<Genetic_AI(Some(file[1].weights), FALSE, <<>>)>>
            /\ pc' = "eval"
    /\ UNCHANGED <<cfg, epoch, n, i, k, fitness, calls, total_fitness, gene,
                   sorted_pop, next_gen, elite_fit_score, elite_genes,
                   parents, parent1, parent2, log, data, file, inputs, outs>>

\* lines 163-166: the average test score is printed and the agent returned
LoadReturn ==
    /\ pc = "eval"
    /\ Len(fitness) = cfg.num_trials
    /\ data' = <<Mean(fitness)>>
    /\ pc' = "returned"
    /\ UNCHANGED <<cfg, epoch, population, n, i, k, fitness, calls,
                   total_fitness, gene, sorted_pop, next_gen,
                   elite_fit_score, elite_genes, parents, parent1, parent2,
                   log, file, inputs, outs>>

\* the test loop (lines 157-161) resets previous_y, runs an episode and keeps
\* its score, as the trial loop of compute_fitness does
ImportNext ==
    \/ LoadWeights
    \/ TrialReset
    \/ MainsStep
    \/ MainsReturn
    \/ LoadReturn

ImportSpec == ImportInit /\ [][ImportNext]_vars

\* C5: no controller with a weight vector of the wrong length ever exists: a
\* document whose weights array has another length than the architecture's
\* total leaves the import without a controller
C5_LengthValidated ==
    \A j \in 1..Len(population) :
       Len(population[j].genotype) = TotalWeights(num_features, hidden_size)

(***************************************************************************)
(* Genetic_AI.getMove on two controllers with the same weights.            *)
(***************************************************************************)
\* a hand-made weight vector whose output follows the sign of the velocity:
\* the velocity feeds hidden unit 1, which alone feeds the output
VelocityNet ==
    [j \in 1..TotalWeights(num_features, hidden_size) |->
        IF j = 3 * hidden_size + 1 THEN Q
        ELSE IF j = num_features * hidden_size + hidden_size + 1 THEN Q
        ELSE 0]

ObserveGenotypes ==
    {VelocityNet} \cup XavierInit(TotalWeights(num_features, hidden_size))

ObserveStates == RawStates \cup {<<50, 200, 256, 1>>}

\* the two controllers share weights and previous height and nothing else
ObserveInit ==
    /\ cfg = [entry |-> "getMove", num_epochs |-> 0, num_trials |-> 0,
              pop_size |-> 2, aggregate |-> "blend", num_elite |-> 0,
              survival_rate |-> <<1, 1>>, scores |-> {},
              states |-> ObserveStates]
    /\ pc = "observe"
    /\ epoch = 0 /\ n = 0 /\ i = 0 /\ k = 0
    /\ \E g \in ObserveGenotypes, y \in {None, Some(0), Some(240)} :
          population =
            <<[Genetic_AI(Some(g), FALSE, <<>>) EXCEPT !.previous_y = y],
              [Genetic_AI(Some(g), FALSE, <<>>)
                 EXCEPT !.previous_y = y, !.fit_score = <<10, 1>>]>>
    /\ fitness = <<>> /\ calls = <<>> /\ total_fitness = <<0, 1>>
    /\ gene = <<>> /\ sorted_pop = <<>> /\ next_gen = <<>>
    /\ elite_fit_score = <<0, 1>> /\ elite_genes = <<>> /\ parents = <<>>
    /\ parent1 = 0 /\ parent2 = 0
    /\ log = [header |-> <<>>, rows |-> <<>>] /\ data = <<>>
    /\ file = <<>>
    /\ \E len \in 1..MaxInputs : inputs \in [1..len -> ObserveStates]
    /\ outs = << <<>>, <<>> >>

\* controller c is handed its next raw state
Observe(c) ==
    /\ pc = "observe"
    /\ Len(outs[c]) < Len(inputs)
    /\ LET r == GetMove(population[c], inputs[Len(outs[c]) + 1])
       IN  /\ population' = [population EXCEPT ![c] = r.agent]
           /\ outs' = [outs EXCEPT ![c] =
                          Append(@, [decision |-> r.decision,
                                     previous_y |-> r.agent.previous_y])]
    /\ UNCHANGED <<cfg, pc, epoch, n, i, k, fitness, calls, total_fitness,
                   gene, sorted_pop, next_gen, elite_fit_score, elite_genes,
                   parents, parent1, parent2, log, data, file, inputs>>

ObserveNext == \E c \in 1..2 : Observe(c)

ObserveSpec == ObserveInit /\ [][ObserveNext]_vars

CrossGenotypes ==
    { <<0, ClipBound * Q - Q \div 20, -(ClipBound * Q)>>,
      <<ClipBound * Q, -(ClipBound * Q) + Q \div 20, Q>>,
      <<-(ClipBound * Q) - Q \div 2, Q \div 2, ClipBound * Q + Q \div 2>>,
      <<-Q, 0, Q>> }

CrossScores == { <<0, 1>>, <<10, 1>>, <<30, 1>> }

CrossParents ==
    {[Genetic_AI(Some(g), FALSE, <<>>) EXCEPT !.fit_score = f] :
        g \in CrossGenotypes, f \in CrossScores}

\* cross(a1, a2, aggregate) is about to be called
CrossInit ==
    /\ \E a \in {"uniform", "blend", "lin"} :
          cfg = [entry |-> "cross", num_epochs |-> 0, num_trials |-> 0,
                 pop_size |-> 2, aggregate |-> a, num_elite |-> 0,
                 survival_rate |-> <<1, 1>>, scores |-> {}, states |-> {}]
    /\ pc = "cross"
    /\ epoch = 0 /\ n = 0 /\ i = 0 /\ k = 0
    /\ \E a1 \in CrossParents, a2 \in CrossParents : population = <<a1, a2>>
    /\ fitness = <<>> /\ calls = <<>> /\ total_fitness = <<0, 1>>
    /\ gene = <<>> /\ sorted_pop = <<>> /\ next_gen = <<>>
    /\ elite_fit_score = <<0, 1>> /\ elite_genes = <<>> /\ parents = <<>>
    /\ parent1 = 0 /\ parent2 = 0
    /\ log = [header |-> <<>>, rows |-> <<>>] /\ data = <<>>
    /\ file = <<>> /\ inputs = <<>> /\ outs = <<>>

\* lines 9-39: cross returns the mutated child of the two parents
CrossCall ==
    /\ pc = "cross"
    /\ \E d \in CrossDraws(cfg.aggregate, Len(population[1].genotype)) :
          next_gen' = <<Cross(population[1], population[2], cfg.aggregate, d)>>
    /\ pc' = "returned"
    /\ UNCHANGED <<cfg, epoch, population, n, i, k, fitness, calls,
                   total_fitness, gene, sorted_pop, elite_fit_score,
                   elite_genes, parents, parent1, parent2, log, data, file,
                   inputs, outs>>

\* cross called on its own, or a run of run_X_epochs
WeightInit == Init \/ CrossInit

WeightNext == Next \/ CrossCall

WeightSpec == WeightInit /\ [][WeightNext]_vars

\* every weight of the controller lies in [-3, 3]
InClipRange(a) ==
    \A ix \in 1..Len(a.genotype) :
       /\ a.genotype[ix] >= -(ClipBound * Q)
       /\ a.genotype[ix] <= ClipBound * Q

\* C11: every weight of every controller returned by cross lies in [-3, 3],
\* whatever the parents and the strategy; and in a run started from randomly
\* initialized controllers every weight of every controller of every
\* generation, elite or offspring, lies in [-3, 3]
C11_WeightBound ==
    /\ (cfg.entry = "cross" /\ pc = "returned") => InClipRange(next_gen[1])
    /\ cfg.entry = "run_X_epochs" =>
          /\ \A j \in 1..Len(population) : InClipRange(population[j])
          /\ \A j \in 1..Len(next_gen) : InClipRange(next_gen[j])

\* cross has returned a child one of whose weights the clip cut back to 3:
\* recombination and noise had put it beyond
C11_Witness ==
    /\ cfg.entry = "cross"
    /\ pc = "returned"
    /\ \E d \in CrossDraws(cfg.aggregate, Len(population[1].genotype)) :
          /\ next_gen[1] = Cross(population[1], population[2], cfg.aggregate, d)
          /\ \E ix \in 1..Len(next_gen[1].genotype) :
                /\ NewGenotype(population[1], population[2], cfg.aggregate,
                               d)[ix] + d.noise[ix] > ClipBound * Q
                /\ next_gen[1].genotype[ix] = ClipBound * Q

=============================================================================
